---- MODULE Spec2Model ----
(***************************************************************************)
(* Model of the user API lambda (api/user_handler.py) with its identity    *)
(* extractor (api/auth.py), preferences repository (api/dynamodb_client.py)*)
(* and S3 image service (api/s3_client.py).                                *)
(*                                                                         *)
(* Python str values are sequences of one-character strings, so that       *)
(* startswith, split and unquote are computed character by character.      *)
(* The event and the JSON bodies are functions whose DOMAIN is the set of   *)
(* keys present; items and preference dicts range over the four known      *)
(* keys, with Absent marking a key the dict does not hold.                 *)
(***************************************************************************)
EXTENDS Integers, Sequences, FiniteSets, TLC

VARIABLES
    table,             \* DynamoDB table: user_id -> item (EmptyItem when no row)
    env,               \* os.environ: the set of variable names that are set
    preferences_repo,  \* module global _preferences_repo: TRUE once initialised
    s3_service,        \* module global _s3_service: TRUE once initialised
    pc,                \* lambda runtime: "idle" or "done" (response returned)
    event,             \* the event of the invocation that just returned
    resp,              \* the response lambda_handler returned
    calls,             \* store operations that invocation issued, in order
    exc,               \* exception type caught by the handler's except, or "none"
    nd,                \* that invocation's uuid4 draw and the store request that failed
    w,                 \* concurrent create_or_update_preferences calls (locals)
    op                 \* last sequential repository call with its locals

vars == <<table, env, preferences_repo, s3_service, pc, event, resp, calls, exc, nd, w, op>>

handlerVars == <<env, preferences_repo, s3_service, pc, event, resp, calls, exc, nd>>

-----------------------------------------------------------------------------
(* Bounds of the model *)

\* uuid4 tokens are drawn from 1..MaxToken
MaxToken == 2
\* number of concurrent writers in SpecRace
NumWriters == 2

-----------------------------------------------------------------------------
(* Python str helpers *)

\* The value None and the marker for "key not in dict" in str-valued positions.
\* Neither is a string any input of the model contains.
None == <<"<None>">>
Absent == <<"<absent>">>

StartsWith(s, p) == Len(p) <= Len(s) /\ SubSeq(s, 1, Len(p)) = p

Contains(s, c) == \E i \in 1..Len(s) : s[i] = c

\* Index of the first c in s at or after position i, 0 when there is none
RECURSIVE Find(_, _, _)
Find(s, c, i) ==
    IF i > Len(s) THEN 0
    ELSE IF s[i] = c THEN i
    ELSE Find(s, c, i + 1)

\* s.split(c, 2)[2]: what follows the second occurrence of c
SplitMax2Third(s, c) ==
    LET i1 == Find(s, c, 1)
        i2 == Find(s, c, i1 + 1)
    IN  SubSeq(s, i2 + 1, Len(s))

\* s.split(c)[-1]: what follows the last occurrence of c (s itself when none)
RECURSIVE SplitLast(_, _)
SplitLast(s, c) ==
    LET i == Find(s, c, 1)
    IN  IF i = 0 THEN s ELSE SplitLast(SubSeq(s, i + 1, Len(s)), c)

HexDigits == {"0","1","2","3","4","5","6","7","8","9",
              "a","b","c","d","e","f","A","B","C","D","E","F"}

HexVal(h) ==
    CASE h = "0" -> 0 [] h = "1" -> 1 [] h = "2" -> 2 [] h = "3" -> 3
      [] h = "4" -> 4 [] h = "5" -> 5 [] h = "6" -> 6 [] h = "7" -> 7
      [] h = "8" -> 8 [] h = "9" -> 9
      [] h \in {"a", "A"} -> 10 [] h \in {"b", "B"} -> 11
      [] h \in {"c", "C"} -> 12 [] h \in {"d", "D"} -> 13
      [] h \in {"e", "E"} -> 14 [] h \in {"f", "F"} -> 15

\* The character of a byte; bytes outside the model's alphabet decode to one
\* stand-in character that occurs in no key or subject.
Chr(n) ==
    CASE n = 37 -> "%" [] n = 46 -> "." [] n = 47 -> "/"
      [] n = 50 -> "2" [] n = 97 -> "a" [] n = 98 -> "b"
      [] n = 120 -> "x"
      [] OTHER -> "<byte>"

\* urllib.parse.unquote: every %XX with two hex digits becomes the byte's
\* character, everything else is kept
RECURSIVE Unquote(_)
Unquote(s) ==
    IF s = <<>> THEN <<>>
    ELSE IF /\ s[1] = "%"
            /\ Len(s) >= 3
            /\ s[2] \in HexDigits
            /\ s[3] \in HexDigits
         THEN <<Chr(16 * HexVal(s[2]) + HexVal(s[3]))>> \o Unquote(SubSeq(s, 4, Len(s)))
         ELSE <<s[1]>> \o Unquote(Tail(s))

-----------------------------------------------------------------------------
(* api/models.py *)

PrefFields == {"theme", "displayName", "displayPicture"}
ItemKeys == PrefFields \cup {"user_id"}

\* Field(max_length=100) of displayName
MAX_DISPLAY_NAME == 100

\* A dict over ItemKeys with no key at all
EmptyItem == [k \in ItemKeys |-> Absent]

\* UserPreferences(**d): a record with every field, None where d has no key
UserPreferences(d) == [k \in ItemKeys |-> IF d[k] = Absent THEN None ELSE d[k]]

-----------------------------------------------------------------------------
(* api/dynamodb_client.py *)

\* get_preferences: None (NoPrefs) if there is no item, else the model built
\* from raw.get(...) of the four attributes
NoPrefs == [k \in ItemKeys |-> Absent]

\* get_preferences that forgets displayName when it converts the item
GetPreferencesDropsName(tbl, user_id) ==
    LET raw == tbl[user_id]
    IN  IF raw = EmptyItem THEN NoPrefs
        ELSE [UserPreferences(raw) EXCEPT !["displayName"] = None]

GetPreferences(tbl, user_id) ==
    LET raw == tbl[user_id]
    IN  IF raw = EmptyItem THEN NoPrefs
        ELSE UserPreferences(raw)

\* data after the merge loop and data["user_id"] = user_id
MergedData(existing, user_id, prefs_in) ==
    LET data0 == IF existing # NoPrefs THEN existing
                 ELSE [EmptyItem EXCEPT !["user_id"] = user_id]
        data1 == [k \in ItemKeys |->
                    IF k \in PrefFields /\ prefs_in[k] # Absent
                    THEN IF prefs_in[k] # None THEN prefs_in[k]
                         ELSE Absent
                    ELSE data0[k]]
    IN  [data1 EXCEPT !["user_id"] = user_id]

\* put_item(Item=data) without the filter on None
StoredItemKeepsNone(data) == data

\* item = {k: v for k, v in data.items() if v is not None}
StoredItem(data) == [k \in ItemKeys |-> IF data[k] = None THEN Absent ELSE data[k]]

\* create_or_update_preferences after the read: the table after put_item and
\* the returned model
PutPreferences(tbl, existing, user_id, prefs_in) ==
    LET data == MergedData(existing, user_id, prefs_in)
    IN  [table |-> [tbl EXCEPT ![user_id] = StoredItem(data)],
         ret   |-> UserPreferences(data)]

CreateOrUpdatePreferences(tbl, user_id, prefs_in) ==
    PutPreferences(tbl, GetPreferences(tbl, user_id), user_id, prefs_in)

-----------------------------------------------------------------------------
(* Inputs of the repository specifications *)

\* subject identifiers (the JWT sub claim); A2 extends A, AB contains a '/'
SubA == <<"a">>
SubA2 == <<"a", "2">>
SubAB == <<"a", "/", "b">>
UserIds == {SubA, SubA2}

Dark == <<"d", "a", "r", "k">>
Light == <<"l", "i", "g", "h", "t">>
Bob == <<"B", "o", "b">>
Pic == <<"u", "s", "e", "r", "s", "/", "a", "/", "x">>

\* prefs_in.model_dump(exclude_unset=True): Absent = field not set by the caller;
\* every update that sets (or clears) at most two of the three fields
Updates ==
    {[theme |-> t, displayName |-> n, displayPicture |-> p] :
        t \in {Absent, None, Dark, Light}, n \in {Absent, None, Bob}, p \in {Absent, None, Pic}}
    \ {[theme |-> t, displayName |-> n, displayPicture |-> p] :
        t \in {None, Dark, Light}, n \in {None, Bob}, p \in {None, Pic}}

RaceUpdates ==
    {[theme |-> t, displayName |-> n, displayPicture |-> Absent] :
        t \in {Absent, None, Dark}, n \in {Absent, Bob}} \ {[k \in PrefFields |-> Absent]}

NoOp == [name |-> "none", user_id |-> None, prefs_in |-> [k \in PrefFields |-> Absent],
         existing |-> NoPrefs, ret |-> NoPrefs, got_user |-> None, got |-> NoPrefs]

IdleWriter == [pc |-> "idle", user_id |-> None, prefs_in |-> [k \in PrefFields |-> Absent],
               existing |-> NoPrefs, ret |-> NoPrefs]

Writers == 1..NumWriters

HandlerIdle ==
    /\ env = {}
    /\ preferences_repo = FALSE
    /\ s3_service = FALSE
    /\ pc = "idle"
    /\ event = [none |-> TRUE]
    /\ resp = [none |-> TRUE]
    /\ calls = <<>>
    /\ exc = "none"
    /\ nd = [token |-> 1, fault |-> "none"]

-----------------------------------------------------------------------------
(* SpecRepo: sequential calls of the repository *)

InitRepo ==
    /\ table = [u \in UserIds |-> EmptyItem]
    /\ HandlerIdle
    /\ w = [i \in Writers |-> IdleWriter]
    /\ op = NoOp

\* one call of create_or_update_preferences(user_id, prefs_in), start to end
Upsert(user_id, prefs_in) ==
    LET existing == GetPreferences(table, user_id)
        r == PutPreferences(table, existing, user_id, prefs_in)
    IN  /\ table' = r.table
        /\ op' = [name |-> "create_or_update_preferences", user_id |-> user_id,
                  prefs_in |-> prefs_in, existing |-> existing, ret |-> r.ret,
                  got_user |-> None, got |-> NoPrefs]
        /\ UNCHANGED <<handlerVars, w>>

\* one call of get_preferences(user_id)
Get(user_id) ==
    /\ op' = [op EXCEPT !.name = "get_preferences", !.got_user = user_id,
                        !.got = GetPreferences(table, user_id)]
    /\ UNCHANGED <<table, handlerVars, w>>

NextRepo ==
    \/ \E u \in UserIds, p \in Updates : Upsert(u, p)
    \/ \E u \in UserIds : Get(u)

SpecRepo == InitRepo /\ [][NextRepo]_vars

-----------------------------------------------------------------------------
(* SpecRace: concurrent calls of create_or_update_preferences, one per       *)
(* writer, interleaved at the two table requests (get_item, put_item)       *)

InitRace ==
    /\ table = [u \in UserIds |-> EmptyItem]
    /\ HandlerIdle
    /\ w = [i \in Writers |-> IdleWriter]
    /\ op = NoOp

\* existing = self.get_preferences(user_id)
WRead(i, user_id, prefs_in) ==
    /\ w[i].pc = "idle"
    /\ w' = [w EXCEPT ![i] = [pc |-> "read", user_id |-> user_id, prefs_in |-> prefs_in,
                              existing |-> GetPreferences(table, user_id), ret |-> NoPrefs]]
    /\ UNCHANGED <<table, handlerVars, op>>

\* a put that merges over the row as it is at the time of the write
WPutOverCurrentRow(i) ==
    /\ w[i].pc = "read"
    /\ LET r == CreateOrUpdatePreferences(table, w[i].user_id, w[i].prefs_in)
       IN  /\ table' = r.table
           /\ w' = [w EXCEPT ![i].pc = "done", ![i].ret = r.ret]
    /\ UNCHANGED <<handlerVars, op>>

\* merge, put_item(Item=item), return UserPreferences(**data)
WPut(i) ==
    /\ w[i].pc = "read"
    /\ LET r == PutPreferences(table, w[i].existing, w[i].user_id, w[i].prefs_in)
       IN  /\ table' = r.table
           /\ w' = [w EXCEPT ![i].pc = "done", ![i].ret = r.ret]
    /\ UNCHANGED <<handlerVars, op>>

NextRace ==
    \/ \E i \in Writers, u \in UserIds, p \in RaceUpdates : WRead(i, u, p)
    \/ \E i \in Writers : WPut(i)

SpecRace == InitRace /\ [][NextRace]_vars

-----------------------------------------------------------------------------
(* api/s3_client.py *)

UsersPrefix == <<"u", "s", "e", "r", "s", "/">>
ImagesInfix == <<"/", "i", "m", "a", "g", "e", "s", "/">>
Jpg == <<"j", "p", "g">>

\* self.expiration.total_seconds() with the default expiration_seconds
EXPIRATION_SECONDS == 3600

\* str(uuid.uuid4()): the n-th token, hex digits and dashes only
Uuid4(n) == <<"0", "-">> \o [i \in 1..n |-> "f"]

\* a prefix check that leaves out the closing '/'
ValidateUserOwnsKeyNoSlash(s3_key, user_id) == StartsWith(s3_key, UsersPrefix \o user_id)

\* validate_user_owns_key
ValidateUserOwnsKey(s3_key, user_id) ==
    LET expected_prefix == UsersPrefix \o user_id \o <<"/">>
    IN  StartsWith(s3_key, expected_prefix)

\* the extension taken after the first dot instead of the last
FileExtensionFirstDot(file_name) ==
    IF Contains(file_name, ".")
    THEN LET rest == SubSeq(file_name, Find(file_name, ".", 1) + 1, Len(file_name))
             j == Find(rest, ".", 1)
         IN  IF j = 0 THEN rest ELSE SubSeq(rest, 1, j - 1)
    ELSE Jpg

\* file_name.split(".")[-1] if "." in file_name else "jpg"
FileExtension(file_name) ==
    IF Contains(file_name, ".") THEN SplitLast(file_name, ".") ELSE Jpg

\* the s3_key of generate_upload_url
UploadKey(user_id, file_name, token) ==
    UsersPrefix \o user_id \o ImagesInfix \o Uuid4(token) \o <<".">> \o FileExtension(file_name)

\* generate_presigned_url: the grant the URL encodes
PresignedUrl(method, params) ==
    [ClientMethod |-> method, Params |-> params, ExpiresIn |-> EXPIRATION_SECONDS]

\* generate_upload_url: (upload_url, s3_key)
GenerateUploadUrl(user_id, file_name, content_type, token) ==
    LET s3_key == UploadKey(user_id, file_name, token)
    IN  [upload_url |-> PresignedUrl("put_object", [Key |-> s3_key, ContentType |-> content_type]),
         s3_key |-> s3_key]

\* generate_download_url
GenerateDownloadUrl(s3_key) == PresignedUrl("get_object", [Key |-> s3_key])

-----------------------------------------------------------------------------
(* api/auth.py *)

EmptyDict == [k \in {} |-> k]
\* None where a dict is expected (a JSON null in the event)
DictNone == [py_none |-> TRUE]

\* d.get(k, default)
DictGet(d, k, default) == IF k \in DOMAIN d THEN d[k] ELSE default

\* an extractor that falls back to a fixed identity when there is no authorizer
GetUserIdFromEventWithFallback(ev) ==
    LET rc == DictGet(ev, "requestContext", EmptyDict)
    IN  IF "authorizer" \notin DOMAIN rc THEN [raised |-> FALSE, value |-> SubA]
        ELSE [raised |-> FALSE, value |-> None]

\* get_user_id_from_event: value is claims.get("sub"); raised when a level of
\* the chain is None, which has no .get
GetUserIdFromEvent(ev) ==
    LET rc == DictGet(ev, "requestContext", EmptyDict)
        au == DictGet(rc, "authorizer", EmptyDict)
    IN  IF au = DictNone THEN [raised |-> TRUE, value |-> None]
        ELSE LET jwt == DictGet(au, "jwt", EmptyDict)
             IN  IF jwt = DictNone THEN [raised |-> TRUE, value |-> None]
                 ELSE LET claims == DictGet(jwt, "claims", EmptyDict)
                      IN  IF claims = DictNone THEN [raised |-> TRUE, value |-> None]
                          ELSE [raised |-> FALSE, value |-> DictGet(claims, "sub", None)]

-----------------------------------------------------------------------------
(* api/user_handler.py *)

P_UserPreferences == <<"/", "u", "s", "e", "r", "/", "p", "r", "e", "f", "e", "r", "e", "n", "c", "e", "s">>
P_UploadUrl == <<"/", "u", "p", "l", "o", "a", "d", "-", "u", "r", "l">>
P_DownloadUrl == <<"/", "d", "o", "w", "n", "l", "o", "a", "d", "-", "u", "r", "l", "/">>
P_DeleteImage == <<"/", "d", "e", "l", "e", "t", "e", "-", "i", "m", "a", "g", "e", "/">>
StagePrefixes == {<<"/", "d", "e", "v", "/">>, <<"/", "p", "r", "o", "d", "/">>, <<"/", "s", "t", "a", "g", "i", "n", "g", "/">>}

CorsHeaders ==
    ("Content-Type" :> "application/json")
      @@ ("Access-Control-Allow-Origin" :> "*")
      @@ ("Access-Control-Allow-Methods" :> "GET, POST, PUT, DELETE, OPTIONS")
      @@ ("Access-Control-Allow-Headers" :> "Content-Type, Authorization")

\* _response; body is the value json.dumps serialises
Response(status_code, body) ==
    [statusCode |-> status_code, headers |-> CorsHeaders, body |-> body]

\* the path with the stage removed but without the leading '/' put back
NormalizePathNoSlash(raw_path) ==
    IF \E p \in StagePrefixes : StartsWith(raw_path, p)
    THEN SplitMax2Third(raw_path, "/")
    ELSE raw_path

\* the stage prefix stripping at the top of lambda_handler
NormalizePath(raw_path) ==
    IF \E p \in StagePrefixes : StartsWith(raw_path, p)
    THEN LET path == SplitMax2Third(raw_path, "/")
         IN  IF path # <<>> THEN <<"/">> \o path ELSE <<"/">>
    ELSE raw_path

\* _get_preferences_repo: raised (ValueError) or the global after the call
GetPreferencesRepo(environ, repo) ==
    IF repo THEN [raised |-> FALSE, handle |-> TRUE]
    ELSE IF "PREFERENCES_TABLE_NAME" \notin environ THEN [raised |-> TRUE, handle |-> FALSE]
    ELSE [raised |-> FALSE, handle |-> TRUE]

\* _get_s3_service: raised (ValueError) or the global after the call
GetS3Service(environ, s3) ==
    IF s3 THEN [raised |-> FALSE, handle |-> TRUE]
    ELSE IF "S3_BUCKET_NAME" \notin environ THEN [raised |-> TRUE, handle |-> FALSE]
    ELSE [raised |-> FALSE, handle |-> TRUE]

\* Request bodies (the text of event["body"])
B_ThemeDark == "{\"theme\": \"dark\"}"
B_ThemeNull == "{\"theme\": null}"
B_NameBob == "{\"displayName\": \"Bob\", \"user_id\": \"a2\"}"
B_LongName == "{\"displayName\": \"xxx...x\"}"
B_Malformed == "{\"theme\": "
B_List == "[]"
B_Upload == "{\"fileName\": \"photo.PNG\", \"contentType\": \"image/png\"}"
B_UploadNoDot == "{\"fileName\": \"photo\", \"contentType\": \"image/png\"}"
B_UploadNoType == "{\"fileName\": \"photo.PNG\"}"

PhotoPNG == <<"p", "h", "o", "t", "o", ".", "P", "N", "G">>
Photo == <<"p", "h", "o", "t", "o">>
ImagePng == <<"i", "m", "a", "g", "e", "/", "p", "n", "g">>
\* the displayName of B_LongName: MAX_DISPLAY_NAME + 1 characters
LongName == [i \in 1..(MAX_DISPLAY_NAME + 1) |-> "x"]

\* json.loads on the bodies above: ok is FALSE for JSONDecodeError, isdict
\* tells a JSON object from another JSON value
JsonLoads(text) ==
    CASE text = "{}"           -> [ok |-> TRUE, isdict |-> TRUE, value |-> EmptyDict]
      [] text = B_ThemeDark    -> [ok |-> TRUE, isdict |-> TRUE, value |-> [theme |-> Dark]]
      [] text = B_ThemeNull    -> [ok |-> TRUE, isdict |-> TRUE, value |-> [theme |-> None]]
      [] text = B_NameBob      -> [ok |-> TRUE, isdict |-> TRUE,
                                   value |-> [displayName |-> Bob, user_id |-> SubA2]]
      [] text = B_LongName     -> [ok |-> TRUE, isdict |-> TRUE, value |-> [displayName |-> LongName]]
      [] text = B_List         -> [ok |-> TRUE, isdict |-> FALSE, value |-> EmptyDict]
      [] text = B_Upload       -> [ok |-> TRUE, isdict |-> TRUE,
                                   value |-> [fileName |-> PhotoPNG, contentType |-> ImagePng]]
      [] text = B_UploadNoDot  -> [ok |-> TRUE, isdict |-> TRUE,
                                   value |-> [fileName |-> Photo, contentType |-> ImagePng]]
      [] text = B_UploadNoType -> [ok |-> TRUE, isdict |-> TRUE, value |-> [fileName |-> PhotoPNG]]
      [] OTHER                 -> [ok |-> FALSE, isdict |-> FALSE, value |-> EmptyDict]

\* event.get("body") or "{}"
BodyText(ev) ==
    IF "body" \in DOMAIN ev /\ ev["body"] # "" THEN ev["body"] ELSE "{}"

\* UserPreferencesUpdate(**body): the fields set by the caller (others Absent),
\* keys that are no field of the model ignored; not ok for ValidationError
UserPreferencesUpdate(body) ==
    LET prefs_in == [f \in PrefFields |-> DictGet(body, f, Absent)]
        name == prefs_in["displayName"]
    IN  [ok |-> name \in {Absent, None} \/ Len(name) <= MAX_DISPLAY_NAME,
         prefs_in |-> prefs_in]

\* UploadUrlRequest(**body): both fields required
UploadUrlRequest(body) ==
    [ok |-> /\ DictGet(body, "fileName", None) # None
            /\ DictGet(body, "contentType", None) # None,
     fileName |-> DictGet(body, "fileName", None),
     contentType |-> DictGet(body, "contentType", None)]

\* A return of lambda_handler: the response, the store requests it issued,
\* the collaborators' state it leaves, and whether uuid4 was called
Return(st, resp_, calls_) ==
    [resp |-> resp_, calls |-> calls_, exc |-> "none", st |-> st, tokenUsed |-> FALSE]

\* the body of the except branch without the exception's type and message
InternalServerErrorBare(error_type, error_message) ==
    Response(500, [message |-> "Internal Server Error"])

\* the response built by the except branch
InternalServerError(error_type, error_message) ==
    Response(500, [message |-> "Internal Server Error",
                   error |-> error_type,
                   details |-> error_message])

\* An exception reaching "except Exception as e"
Raise(st, calls_, error_type, error_message) ==
    [resp |-> InternalServerError(error_type, error_message), calls |-> calls_,
     exc |-> error_type, st |-> st, tokenUsed |-> FALSE]

\* GET /user/preferences: the repository has no get_all_preferences
RouteGetPreferences(st, environ, user_id) ==
    LET h == GetPreferencesRepo(environ, st.preferences_repo)
    IN  IF h.raised
        THEN Raise(st, <<>>, "ValueError", "PREFERENCES_TABLE_NAME environment variable is not set")
        ELSE Raise([st EXCEPT !.preferences_repo = h.handle], <<>>, "AttributeError",
                   "'PreferencesRepository' object has no attribute 'get_all_preferences'")

\* PUT /user/preferences
RoutePutPreferences(ev, st, environ, user_id, fault) ==
    LET body == JsonLoads(BodyText(ev))
        upd == UserPreferencesUpdate(body.value)
        h == GetPreferencesRepo(environ, st.preferences_repo)
        st1 == [st EXCEPT !.preferences_repo = h.handle]
        get_item == [op |-> "get_item", arg |-> user_id]
        r == CreateOrUpdatePreferences(st.table, user_id, upd.prefs_in)
        put_item == [op |-> "put_item", arg |-> r.table[user_id]]
    IN  IF ~body.ok THEN Raise(st, <<>>, "JSONDecodeError", "Expecting value")
        ELSE IF ~body.isdict
        THEN Raise(st, <<>>, "TypeError", "argument after ** must be a mapping, not list")
        ELSE IF ~upd.ok
        THEN Raise(st, <<>>, "ValidationError", "1 validation error for UserPreferencesUpdate")
        ELSE IF h.raised
        THEN Raise(st, <<>>, "ValueError", "PREFERENCES_TABLE_NAME environment variable is not set")
        ELSE IF fault = "get_item"
        THEN Raise(st1, <<get_item>>, "ClientError", "get_item failed")
        ELSE IF fault = "put_item"
        THEN Raise(st1, <<get_item, put_item>>, "ClientError", "put_item failed")
        ELSE Return([st1 EXCEPT !.table = r.table],
                    Response(200, [f \in PrefFields |-> r.ret[f]]),
                    <<get_item, put_item>>)

\* POST /upload-url
RouteUploadUrl(ev, st, environ, user_id, token, fault) ==
    LET body == JsonLoads(BodyText(ev))
        upload_req == UploadUrlRequest(body.value)
        h == GetS3Service(environ, st.s3_service)
        st1 == [st EXCEPT !.s3_service = h.handle]
        g == GenerateUploadUrl(user_id, upload_req.fileName, upload_req.contentType, token)
        presign == [op |-> "generate_presigned_url", arg |-> g.upload_url]
    IN  IF ~body.ok THEN Raise(st, <<>>, "JSONDecodeError", "Expecting value")
        ELSE IF ~body.isdict
        THEN Raise(st, <<>>, "TypeError", "argument after ** must be a mapping, not list")
        ELSE IF ~upload_req.ok
        THEN Raise(st, <<>>, "ValidationError", "validation errors for UploadUrlRequest")
        ELSE IF h.raised
        THEN Raise(st, <<>>, "ValueError", "S3_BUCKET_NAME environment variable is not set")
        ELSE IF fault = "generate_presigned_url"
        THEN [Raise(st1, <<presign>>, "ClientError", "generate_presigned_url failed")
                EXCEPT !.tokenUsed = TRUE]
        ELSE [Return(st1, Response(200, [uploadUrl |-> g.upload_url, key |-> g.s3_key]),
                     <<presign>>)
                EXCEPT !.tokenUsed = TRUE]

\* GET /download-url/{key}
RouteDownloadUrl(path, st, environ, user_id, fault) ==
    LET s3_key == Unquote(SubSeq(path, Len(P_DownloadUrl) + 1, Len(path)))
        h == GetS3Service(environ, st.s3_service)
        st1 == [st EXCEPT !.s3_service = h.handle]
        download_url == GenerateDownloadUrl(s3_key)
        presign == [op |-> "generate_presigned_url", arg |-> download_url]
    IN  IF h.raised
        THEN Raise(st, <<>>, "ValueError", "S3_BUCKET_NAME environment variable is not set")
        ELSE IF ~ValidateUserOwnsKey(s3_key, user_id)
        THEN Return(st1, Response(403, [message |-> "Forbidden: You don't own this image"]), <<>>)
        ELSE IF fault = "generate_presigned_url"
        THEN Raise(st1, <<presign>>, "ClientError", "generate_presigned_url failed")
        ELSE Return(st1, Response(200, [downloadUrl |-> download_url]), <<presign>>)

\* DELETE /delete-image/{key}; delete_image turns a failure of delete_object
\* into False
RouteDeleteImage(path, st, environ, user_id, fault) ==
    LET s3_key == Unquote(SubSeq(path, Len(P_DeleteImage) + 1, Len(path)))
        h == GetS3Service(environ, st.s3_service)
        st1 == [st EXCEPT !.s3_service = h.handle]
        delete_object == [op |-> "delete_object", arg |-> [Key |-> s3_key]]
        success == fault # "delete_object"
    IN  IF h.raised
        THEN Raise(st, <<>>, "ValueError", "S3_BUCKET_NAME environment variable is not set")
        ELSE IF ~ValidateUserOwnsKey(s3_key, user_id)
        THEN Return(st1, Response(403, [message |-> "Forbidden: You don't own this image"]), <<>>)
        ELSE IF success
        THEN Return(st1, Response(204, EmptyDict), <<delete_object>>)
        ELSE Return(st1, Response(500, [message |-> "Failed to delete image"]), <<delete_object>>)

\* the route table of lambda_handler, for an authenticated user_id
Dispatch(ev, method, path, st, environ, user_id, token, fault) ==
    IF path = P_UserPreferences /\ method = "GET"
    THEN RouteGetPreferences(st, environ, user_id)
    ELSE IF path = P_UserPreferences /\ method = "PUT"
    THEN RoutePutPreferences(ev, st, environ, user_id, fault)
    ELSE IF path = P_UploadUrl /\ method = "POST"
    THEN RouteUploadUrl(ev, st, environ, user_id, token, fault)
    ELSE IF StartsWith(path, P_DownloadUrl) /\ method = "GET"
    THEN RouteDownloadUrl(path, st, environ, user_id, fault)
    ELSE IF StartsWith(path, P_DeleteImage) /\ method = "DELETE"
    THEN RouteDeleteImage(path, st, environ, user_id, fault)
    ELSE Return(st, Response(404, [message |-> "Not found"]), <<>>)

\* lambda_handler from the normalized path on
HandlePath(ev, method, path, st, environ, token, fault) ==
    IF method = "OPTIONS" THEN Return(st, Response(200, EmptyDict), <<>>)
    ELSE LET user_id == GetUserIdFromEvent(ev)
         IN  IF user_id.raised
             THEN Raise(st, <<>>, "AttributeError", "'NoneType' object has no attribute 'get'")
             ELSE IF user_id.value \in {None, <<>>}
             THEN Return(st, Response(401, [message |-> "Unauthorized"]), <<>>)
             ELSE Dispatch(ev, method, path, st, environ, user_id.value, token, fault)

\* lambda_handler(event, context)
LambdaHandler(ev, st, environ, token, fault) ==
    IF \/ "requestContext" \notin DOMAIN ev
       \/ "http" \notin DOMAIN ev["requestContext"]
       \/ "method" \notin DOMAIN ev["requestContext"]["http"]
    THEN Raise(st, <<>>, "KeyError", "'requestContext', 'http' or 'method'")
    ELSE IF "rawPath" \notin DOMAIN ev
    THEN Raise(st, <<>>, "KeyError", "'rawPath'")
    ELSE HandlePath(ev, ev["requestContext"]["http"]["method"],
                    NormalizePath(ev["rawPath"]), st, environ, token, fault)

-----------------------------------------------------------------------------
(* Spec: the lambda runtime invoking lambda_handler, one event at a time *)

Methods == {"GET", "PUT", "POST", "DELETE", "OPTIONS"}

KeyA2 == <<"u", "s", "e", "r", "s", "/", "a", "2", "/", "x">>
KeyAEncoded == <<"u", "s", "e", "r", "s", "%", "2", "F", "a", "%", "2", "F", "x">>
Stages == {<<"/", "d", "e", "v">>, <<"/", "p", "r", "o", "d">>, <<"/", "s", "t", "a", "g", "i", "n", "g">>, <<"/", "t", "e", "s", "t">>}

\* paths as the API serves them, one of them beginning with a stage name
BasePaths ==
    {<<"/">>, P_UserPreferences, P_UploadUrl, <<"/", "d", "e", "v">> \o P_UserPreferences}
      \cup {P_DownloadUrl \o k : k \in {Pic, KeyA2, KeyAEncoded}}
      \cup {P_DeleteImage \o k : k \in {Pic, KeyA2}}

RawPaths == BasePaths \cup {s \o p : s \in Stages, p \in BasePaths} \cup {<<"/", "d", "e", "v">>}

\* requestContext.authorizer, from absent to a resolved sub
Authorizers ==
    {EmptyDict,
     [authorizer |-> EmptyDict],
     [authorizer |-> DictNone],
     [authorizer |-> [jwt |-> EmptyDict]],
     [authorizer |-> [jwt |-> [claims |-> EmptyDict]]],
     [authorizer |-> [jwt |-> [claims |-> [sub |-> <<>>]]]],
     [authorizer |-> [jwt |-> [claims |-> [sub |-> SubA]]]],
     [authorizer |-> [jwt |-> [claims |-> [sub |-> SubA2]]]]}

PutBodies == {B_ThemeDark, B_ThemeNull, B_NameBob, B_LongName, B_Malformed, B_List}
PostBodies == {B_Upload, B_UploadNoDot, B_UploadNoType, B_Malformed}

\* the body key of the event: present for PUT and POST only
Bodies(method) ==
    {EmptyDict} \cup {[body |-> t] : t \in (IF method = "PUT" THEN PutBodies
                                            ELSE IF method = "POST" THEN PostBodies
                                            ELSE {})}

Events ==
    {("requestContext" :> ([http |-> [method |-> m]] @@ a)) @@ ("rawPath" :> p) @@ b :
        <<m, b>> \in UNION {{m1} \X Bodies(m1) : m1 \in Methods}, p \in RawPaths, a \in Authorizers}
      \cup {[rawPath |-> P_UserPreferences],
            [requestContext |-> [http |-> [method |-> "GET"]]],
            [requestContext |-> [http |-> [method |-> "OPTIONS"]]]}

Tokens == 1..MaxToken

Init ==
    /\ table = [u \in UserIds |-> EmptyItem]
    /\ env \in SUBSET {"PREFERENCES_TABLE_NAME", "S3_BUCKET_NAME"}
    /\ preferences_repo = FALSE
    /\ s3_service = FALSE
    /\ pc = "idle"
    /\ event = [none |-> TRUE]
    /\ resp = [none |-> TRUE]
    /\ calls = <<>>
    /\ exc = "none"
    /\ nd = [token |-> 1, fault |-> "none"]
    /\ w = [i \in Writers |-> IdleWriter]
    /\ op = NoOp

\* The collaborators' state lambda_handler works on
Collaborators ==
    [table |-> table, preferences_repo |-> preferences_repo, s3_service |-> s3_service]

\* One invocation: lambda_handler runs on ev with the uuid drawn and the store
\* request that fails
Invoke(ev, token, fault) ==
    /\ pc = "idle"
    /\ LET r == LambdaHandler(ev, Collaborators, env, token, fault)
       IN  /\ table' = r.st.table
           /\ preferences_repo' = r.st.preferences_repo
           /\ s3_service' = r.st.s3_service
           /\ resp' = r.resp
           /\ calls' = r.calls
           /\ exc' = r.exc
    /\ pc' = "done"
    /\ event' = ev
    /\ nd' = [token |-> token, fault |-> fault]
    /\ UNCHANGED <<env, w, op>>

\* The uuids an invocation on ev can draw and the store requests that can
\* fail in it: those the run without a failure draws and issues
Draws(ev) ==
    LET r == LambdaHandler(ev, Collaborators, env, 1, "none")
    IN  [tokens |-> IF r.tokenUsed THEN Tokens ELSE {1},
         faults |-> {"none"} \cup {r.calls[i].op : i \in 1..Len(r.calls)}]

\* The runtime hands the response back and waits for the next event
Respond ==
    /\ pc = "done"
    /\ pc' = "idle"
    /\ event' = [none |-> TRUE]
    /\ resp' = [none |-> TRUE]
    /\ calls' = <<>>
    /\ exc' = "none"
    /\ nd' = [token |-> 1, fault |-> "none"]
    /\ UNCHANGED <<table, env, preferences_repo, s3_service, w, op>>

Next ==
    \/ /\ pc = "idle"
       /\ \E ev \in Events :
            \E token \in Draws(ev).tokens, fault \in Draws(ev).faults : Invoke(ev, token, fault)
    \/ Respond

Spec == Init /\ [][Next]_vars

-----------------------------------------------------------------------------
(* SpecUpload: generate_upload_url applied to inputs drawn in Init *)

ArchiveName == <<"a", ".", "b", ".", "x">>
TrailingDot == <<"p", "h", "o", "t", "o", ".">>
SubAImages == <<"a", "/", "i", "m", "a", "g", "e", "s">>
ImageJpeg == <<"i", "m", "a", "g", "e", "/", "j", "p", "e", "g">>
UploadUserIds == {SubA, SubA2, SubAB, SubAImages}
FileNames == {PhotoPNG, Photo, ArchiveName, TrailingDot}
ContentTypes == {ImagePng, ImageJpeg}

InitUpload ==
    /\ table = [u \in UserIds |-> EmptyItem]
    /\ HandlerIdle
    /\ w = [i \in Writers |-> IdleWriter]
    /\ op \in [name : {"input"}, user_id : UploadUserIds, file_name : FileNames,
               content_type : ContentTypes, token : Tokens,
               s3_key : {None}, upload_url : {EmptyDict}]

\* one call of generate_upload_url(user_id, file_name, content_type)
GenerateUpload ==
    /\ op.name = "input"
    /\ LET g == GenerateUploadUrl(op.user_id, op.file_name, op.content_type, op.token)
       IN  op' = [op EXCEPT !.name = "generate_upload_url", !.s3_key = g.s3_key,
                            !.upload_url = g.upload_url]
    /\ UNCHANGED <<table, handlerVars, w>>

NextUpload == GenerateUpload

SpecUpload == InitUpload /\ [][NextUpload]_vars

-----------------------------------------------------------------------------
(* Claims about the preferences repository *)

\* The stored value of field f in the row create_or_update_preferences read
PriorField(existing, f) ==
    IF existing = NoPrefs \/ existing[f] = None THEN Absent ELSE existing[f]

\* The merge as the claims state it: set, clear, or keep
ExpectedField(existing, u, f) ==
    IF u[f] = Absent THEN PriorField(existing, f)
    ELSE IF u[f] = None THEN Absent
    ELSE u[f]

ExpectedRow(existing, user_id, u) ==
    [k \in ItemKeys |-> IF k = "user_id" THEN user_id ELSE ExpectedField(existing, u, k)]

NullWhereAbsent(row) == [k \in ItemKeys |-> IF row[k] = Absent THEN None ELSE row[k]]

NoStoredNull == \A u \in UserIds, k \in ItemKeys : table[u][k] # None

\* C5 as amended: create_or_update_preferences(s, u) merges per field over the
\* existing row of s (set, clear, keep), forces user_id to s, stores a cleared
\* or unset field as absent, and returns it as null (None) in the returned
\* record; no stored row ever contains a null-valued field.
C5_MergeStoresAbsentReturnsNull ==
    /\ NoStoredNull
    /\ op.name = "create_or_update_preferences" =>
         LET row == ExpectedRow(op.existing, op.user_id, op.prefs_in)
         IN  /\ table[op.user_id] = row
             /\ op.ret = NullWhereAbsent(row)

\* C5 as stated: the cleared or unset field is absent (not null) in the
\* returned record too.
C5_ReturnedRecordOmitsClearedFields ==
    /\ NoStoredNull
    /\ op.name = "create_or_update_preferences" =>
         LET row == ExpectedRow(op.existing, op.user_id, op.prefs_in)
         IN  /\ table[op.user_id] = row
             /\ op.ret = row

\* An upsert cleared a field that was stored, kept another and set a third
C5_Witness ==
    /\ op.name = "create_or_update_preferences"
    /\ op.existing # NoPrefs
    /\ \E f, g, h \in PrefFields :
         /\ op.existing[f] # None /\ op.prefs_in[f] = None
         /\ table[op.user_id][f] = Absent /\ op.ret[f] = None
         /\ op.existing[g] # None /\ op.prefs_in[g] = Absent
         /\ table[op.user_id][g] = op.existing[g]
         /\ op.prefs_in[h] \notin {None, Absent} /\ op.prefs_in[h] # op.existing[h]

\* C6: get_preferences(s) right after create_or_update_preferences(s, u)
\* returns the record the upsert returned, whose non-null fields are exactly
\* the non-null fields of u merged over the prior row of s.
C6_ReadAfterUpsert ==
    (op.name = "get_preferences" /\ op.got_user = op.user_id) =>
        /\ op.got = op.ret
        /\ op.got = NullWhereAbsent(ExpectedRow(op.existing, op.user_id, op.prefs_in))

\* A read after an upsert that set one field over a row holding another
C6_Witness ==
    /\ op.name = "get_preferences" /\ op.got_user = op.user_id
    /\ op.existing # NoPrefs
    /\ \E f, g \in PrefFields :
         /\ f # g
         /\ op.prefs_in[f] \notin {None, Absent} /\ op.got[f] = op.prefs_in[f]
         /\ op.prefs_in[g] = Absent /\ op.existing[g] # None /\ op.got[g] = op.existing[g]

\* C7: concurrent upserts are not serialized. A writer's read leaves the table
\* alone; its put replaces the whole row of its subject by the merge of its
\* update over the row it read earlier (whatever was written since), and
\* leaves the rows of other subjects unchanged.
C7_LastWriteWins ==
    [][\A i \in Writers :
          /\ (w[i].pc = "idle" /\ w'[i].pc = "read") =>
                /\ table' = table
                /\ w'[i].existing = NullWhereAbsent(table[w'[i].user_id])
                     \/ (table[w'[i].user_id] = EmptyItem /\ w'[i].existing = NoPrefs)
          /\ (w[i].pc = "read" /\ w'[i].pc = "done") =>
                table' = [table EXCEPT ![w[i].user_id] =
                             ExpectedRow(w[i].existing, w[i].user_id, w[i].prefs_in)]
      ]_vars

\* The lost update: both writers are done on the same subject, one set theme,
\* the other never mentioned theme, and the final row has no theme
C7_Witness ==
    \E i, j \in Writers :
        /\ i # j
        /\ w[i].pc = "done" /\ w[j].pc = "done"
        /\ w[i].user_id = w[j].user_id
        /\ w[i].prefs_in["theme"] = Dark
        /\ w[j].prefs_in["theme"] = Absent
        /\ table[w[i].user_id]["theme"] = Absent
        /\ table[w[i].user_id]["displayName"] = Bob

-----------------------------------------------------------------------------
(* Claims about generate_upload_url *)

EndsWith(s, x) == Len(x) <= Len(s) /\ SubSeq(s, Len(s) - Len(x) + 1, Len(s)) = x

NoSlash(s) == ~Contains(s, "/")

\* C8: the key issued by generate_upload_url(s, fileName, contentType) is
\* users/{s}/images/{token}.{ext}, ext being what follows the last dot of
\* fileName, or jpg when fileName has no dot; s owns it, and no other subject
\* does when subject ids contain no '/'.
C8_UploadKeyForm ==
    op.name = "generate_upload_url" =>
        LET stem == UsersPrefix \o op.user_id \o ImagesInfix \o Uuid4(op.token) \o <<".">>
            ext == SubSeq(op.s3_key, Len(stem) + 1, Len(op.s3_key))
        IN  /\ StartsWith(op.s3_key, stem)
            /\ IF Contains(op.file_name, ".")
               THEN ~Contains(ext, ".") /\ EndsWith(op.file_name, <<".">> \o ext)
               ELSE ext = Jpg
            /\ ValidateUserOwnsKey(op.s3_key, op.user_id)
            /\ \A t \in UploadUserIds :
                 (t # op.user_id /\ NoSlash(t) /\ NoSlash(op.user_id))
                    => ~ValidateUserOwnsKey(op.s3_key, t)

\* A key issued to a2 for a file name with two dots: the extension is the
\* last one, and subject a does not own the key
C8_Witness ==
    /\ op.name = "generate_upload_url"
    /\ op.user_id = SubA2
    /\ op.file_name = ArchiveName
    /\ EndsWith(op.s3_key, <<".", "x">>)
    /\ ~EndsWith(op.s3_key, <<".", "b", ".", "x">>)
    /\ ~ValidateUserOwnsKey(op.s3_key, SubA)

-----------------------------------------------------------------------------
(* Claims about lambda_handler *)

\* the returned invocation had an event with a method and a path
WellFormed ==
    /\ pc = "done"
    /\ "requestContext" \in DOMAIN event
    /\ "rawPath" \in DOMAIN event

Method == event["requestContext"]["http"]["method"]
Path == NormalizePath(event["rawPath"])

\* the claim chain is missing at some level, or sub is empty
NoSubject(ev) ==
    LET rc == ev["requestContext"]
    IN  \/ "authorizer" \notin DOMAIN rc
        \/ /\ rc["authorizer"] # DictNone
           /\ \/ "jwt" \notin DOMAIN rc["authorizer"]
              \/ "claims" \notin DOMAIN rc["authorizer"]["jwt"]
              \/ "sub" \notin DOMAIN rc["authorizer"]["jwt"]["claims"]
              \/ rc["authorizer"]["jwt"]["claims"]["sub"] = <<>>

Authenticated ==
    /\ WellFormed
    /\ "authorizer" \in DOMAIN event["requestContext"]
    /\ event["requestContext"]["authorizer"] # DictNone
    /\ ~NoSubject(event)

Subject == event["requestContext"]["authorizer"]["jwt"]["claims"]["sub"]

StatusCodes == {200, 204, 400, 401, 403, 404, 500}

\* C1: a request that is not OPTIONS and resolves no subject (the claim chain
\* is missing at some level, or sub is empty) gets 401 whatever its path and
\* method, and no store operation is invoked for it.
C1_Unauthenticated401 ==
    (WellFormed /\ Method # "OPTIONS" /\ NoSubject(event)) =>
        /\ resp.statusCode = 401
        /\ resp.body = [message |-> "Unauthorized"]
        /\ calls = <<>>
        /\ exc = "none"

\* A PUT of preferences under a stage prefix, with a jwt that carries no
\* claims, on a configured deployment
C1_Witness ==
    /\ WellFormed
    /\ Method = "PUT"
    /\ event["rawPath"] = <<"/", "d", "e", "v">> \o P_UserPreferences
    /\ "authorizer" \in DOMAIN event["requestContext"]
    /\ event["requestContext"]["authorizer"] = [jwt |-> EmptyDict]
    /\ BodyText(event) = B_ThemeDark
    /\ "PREFERENCES_TABLE_NAME" \in env
    /\ resp.statusCode = 401

IsDownload == WellFormed /\ Method = "GET" /\ StartsWith(Path, P_DownloadUrl)
IsDelete == WellFormed /\ Method = "DELETE" /\ StartsWith(Path, P_DeleteImage)

\* the percent-decoded key of a download or delete request
ObjectKey ==
    Unquote(SubSeq(Path, Len(IF Method = "GET" THEN P_DownloadUrl ELSE P_DeleteImage) + 1,
                   Len(Path)))

KeyOwned == StartsWith(ObjectKey, UsersPrefix \o Subject \o <<"/">>)

\* the object store operation of the route was invoked, on the decoded key
StoreInvoked ==
    IF Method = "GET"
    THEN calls = <<[op |-> "generate_presigned_url",
                    arg |-> PresignedUrl("get_object", [Key |-> ObjectKey])]>>
    ELSE calls = <<[op |-> "delete_object", arg |-> [Key |-> ObjectKey]]>>

\* C2 as stated: for an authenticated download or delete, the store operation
\* is invoked iff the decoded key starts with users/{s}/; every other key gets
\* 403 and the store is never invoked.
C2_OwnedIffInvoked ==
    ((IsDownload \/ IsDelete) /\ Authenticated) =>
        /\ StoreInvoked <=> KeyOwned
        /\ ~KeyOwned => (resp.statusCode = 403 /\ calls = <<>>)

\* C2 as amended: the store is never invoked for a key that does not start
\* with users/{s}/; when S3_BUCKET_NAME is set the operation is invoked iff
\* the key has that prefix and every other key gets 403; when it is not set
\* the request gets 500 (ValueError) whatever the key, with no store call.
C2_OwnershipGuardsStore ==
    ((IsDownload \/ IsDelete) /\ Authenticated) =>
        /\ ~KeyOwned => calls = <<>>
        /\ IF "S3_BUCKET_NAME" \in env
           THEN /\ StoreInvoked <=> KeyOwned
                /\ ~KeyOwned => resp.statusCode = 403
           ELSE resp.statusCode = 500 /\ exc = "ValueError" /\ calls = <<>>

\* Subject a asks to delete users/a2/x: 403 and no store call
C2_Witness ==
    /\ IsDelete /\ Authenticated
    /\ Subject = SubA
    /\ ObjectKey = KeyA2
    /\ resp.statusCode = 403
    /\ calls = <<>>

\* C3: an authenticated GET /user/preferences for a subject with no stored
\* row returns 200 with {theme: null, displayName: null, displayPicture: null}
\* (stated here for a deployment whose PREFERENCES_TABLE_NAME is set).
C3_DefaultPreferences ==
    (Authenticated /\ Method = "GET" /\ Path = P_UserPreferences
        /\ "PREFERENCES_TABLE_NAME" \in env
        /\ table[Subject] = EmptyItem) =>
        /\ resp.statusCode = 200
        /\ resp.body = [theme |-> None, displayName |-> None, displayPicture |-> None]

\* C4: an authenticated PUT /user/preferences with a malformed or invalid
\* body, and an authenticated POST /upload-url whose body lacks fileName or
\* contentType, return 400 and perform no store operation.
C4_BadBody400 ==
    (/\ Authenticated
     /\ \/ /\ Method = "PUT" /\ Path = P_UserPreferences
           /\ BodyText(event) \in {B_Malformed, B_List, B_LongName}
        \/ /\ Method = "POST" /\ Path = P_UploadUrl
           /\ BodyText(event) \in {B_UploadNoType, "{}"}) =>
        /\ resp.statusCode = 400
        /\ calls = <<>>

StageNames == {<<"d", "e", "v">>, <<"p", "r", "o", "d">>, <<"s", "t", "a", "g", "i", "n", "g">>}

\* the first segment of a path that begins with '/'
FirstSegment(rp) ==
    LET i == Find(rp, "/", 2)
    IN  SubSeq(rp, 2, IF i = 0 THEN Len(rp) ELSE i - 1)

\* rp = "/" + stage + p with p beginning with '/' (p is WithoutStage(rp))
UnderStage(rp) == rp[1] = "/" /\ FirstSegment(rp) \in StageNames /\ Find(rp, "/", 2) # 0
WithoutStage(rp) == SubSeq(rp, Find(rp, "/", 2), Len(rp))

\* the invocation that just returned did what the run r does
SameOutcome(r) ==
    /\ r.resp = resp'
    /\ r.calls = calls'
    /\ r.exc = exc'
    /\ r.st.table = table'
    /\ r.st.preferences_repo = preferences_repo'
    /\ r.st.s3_service = s3_service'

Returns ==
    pc = "idle" /\ pc' = "done" /\ "requestContext" \in DOMAIN event' /\ "rawPath" \in DOMAIN event'

\* C9 as stated: a request with rawPath /dev + p, /prod + p or /staging + p
\* is routed and answered as the request with rawPath p, for every p; a
\* rawPath whose first segment is no stage is matched unstripped.
C9_StagePrefixTransparent ==
    [][Returns =>
         LET rp == event'["rawPath"]
             method == event'["requestContext"]["http"]["method"]
         IN  /\ UnderStage(rp) =>
                   SameOutcome(LambdaHandler([event' EXCEPT !["rawPath"] = WithoutStage(rp)],
                                             Collaborators, env, nd'.token, nd'.fault))
             /\ FirstSegment(rp) \notin StageNames =>
                   SameOutcome(HandlePath(event', method, rp, Collaborators, env,
                                          nd'.token, nd'.fault))
      ]_vars

\* C9 as amended: the stage is stripped once. A request with rawPath
\* /dev + p, /prod + p or /staging + p is routed and answered as path p
\* matched against the route table, which is how the request with rawPath p
\* is answered whenever p does not itself begin with /dev/, /prod/ or
\* /staging/; a rawPath whose first segment is no stage is matched unstripped.
C9_StageStrippedOnce ==
    [][Returns =>
         LET rp == event'["rawPath"]
             method == event'["requestContext"]["http"]["method"]
             p == WithoutStage(rp)
         IN  /\ UnderStage(rp) =>
                   /\ SameOutcome(HandlePath(event', method, p, Collaborators, env,
                                             nd'.token, nd'.fault))
                   /\ (~\E sp \in StagePrefixes : StartsWith(p, sp)) =>
                         SameOutcome(LambdaHandler([event' EXCEPT !["rawPath"] = p],
                                                   Collaborators, env, nd'.token, nd'.fault))
             /\ FirstSegment(rp) \notin StageNames =>
                   SameOutcome(HandlePath(event', method, rp, Collaborators, env,
                                          nd'.token, nd'.fault))
      ]_vars

\* A PUT to /staging/user/preferences was served as PUT /user/preferences
C9_Witness ==
    /\ Authenticated
    /\ Method = "PUT"
    /\ event["rawPath"] = <<"/", "s", "t", "a", "g", "i", "n", "g">> \o P_UserPreferences
    /\ BodyText(event) = B_ThemeDark
    /\ resp.statusCode = 200
    /\ table[Subject]["theme"] = Dark

\* C10: every invocation returns one response envelope with a status among
\* 200, 204, 400, 401, 403, 404, 500; an exception raised in lambda_handler
\* (a key missing from the event, an extractor or body parsing error, a
\* collaborator whose environment variable is unset, a failing store request)
\* becomes 500 with message, error (the type name) and details. (A failing
\* delete_object is no exception of lambda_handler: delete_image reports it as
\* False and the handler answers 500 with a message only.)
C10_ExceptionsBecome500 ==
    pc = "done" =>
        /\ DOMAIN resp = {"statusCode", "headers", "body"}
        /\ resp.statusCode \in StatusCodes
        /\ resp.headers = CorsHeaders
        /\ exc # "none" =>
             /\ resp.statusCode = 500
             /\ DOMAIN resp.body = {"message", "error", "details"}
             /\ resp.body.message = "Internal Server Error"
             /\ resp.body.error = exc
        /\ ~WellFormed => exc = "KeyError"
        /\ nd.fault \in {"get_item", "put_item", "generate_presigned_url"} => exc = "ClientError"
        /\ nd.fault = "delete_object" =>
             /\ exc = "none"
             /\ resp = Response(500, [message |-> "Failed to delete image"])
        /\ ((IsDownload \/ IsDelete) /\ Authenticated /\ "S3_BUCKET_NAME" \notin env)
              => exc = "ValueError"
        /\ (WellFormed /\ Method # "OPTIONS"
              /\ "authorizer" \in DOMAIN event["requestContext"]
              /\ event["requestContext"]["authorizer"] = DictNone)
              => exc = "AttributeError"

\* put_item failed in a PUT of preferences: 500 with the exception's type
C10_Witness ==
    /\ Authenticated
    /\ Method = "PUT"
    /\ nd.fault = "put_item"
    /\ Len(calls) = 2
    /\ exc = "ClientError"
    /\ resp.statusCode = 500
    /\ resp.body.error = "ClientError"
    /\ table[Subject] = EmptyItem

====
